---------------------------- MODULE Spec2Model ----------------------------
(***************************************************************************)
(* Model of the tk-3dequalizer hooks:                                      *)
(*   hooks/tk-multi-loader2/tk-3dequalizer_actions.py    (loader actions)  *)
(*   hooks/tk-multi-snapshot/scene_operation_tk-3dequalizer.py             *)
(*                                                                         *)
(* Paths and camera names are sequences of one-character strings, so that  *)
(* the regular expressions, str.replace, glob matching, int() and          *)
(* str.format of the source are computed character by character.           *)
(***************************************************************************)
EXTENDS Integers, Sequences, FiniteSets, TLC

VARIABLES
    disk,         \* the file system: the set of paths that exist
    req,          \* resolver: the path of the last call (<<>> before any call)
    ret,          \* resolver: what the last call returned or raised
    cams,         \* 3DE scene: sequence of cameras, the index is the cam_id
    batch,        \* loader: the action list given to execute_multiple_actions
    pc,           \* loader: "idle", "running", "done" (returned) or "raised"
    attempted,    \* loader: indices of the actions execute_action was called for
    raised,       \* loader: the exception that reached the caller
    dialogs,      \* loader: titles of the QMessageBox.warning dialogs shown
    renames,      \* loader: the renames done by the last _import_image_seq
    cams0,        \* loader: the cameras when the batch started
    camsPrev,     \* loader: the cameras before the last execute_action
    projectPath,  \* 3DE project: what tde4.getProjectPath() returns
    saved,        \* 3DE project: arguments of the tde4.saveProject calls
    lastOp,       \* scene operation: the last execute call (operation, file_path)
    opRet         \* scene operation: what the last execute call returned

resolverVars == <<req, ret>>
loaderVars == <<cams, batch, pc, attempted, raised, dialogs, renames, cams0, camsPrev>>
sceneVars == <<projectPath, saved, lastOp, opRet>>
vars == <<disk, req, ret, cams, batch, pc, attempted, raised, dialogs, renames,
          cams0, camsPrev, projectPath, saved, lastOp, opRet>>

---------------------------------------------------------------------------
(* Bounds of the model *)

\* number of frame numbers a sequence on disk is drawn from (FirstFrame ..)
MaxFrames == 5
\* number of cameras in the 3DE scene
MaxCams == 3
\* length of the action list of one execute_multiple_actions call
MaxBatch == 3
\* number of saveProject calls recorded
MaxSaves == 2

\* the first frame number of the sequences on disk
FirstFrame == 1001

Frames == FirstFrame .. (FirstFrame + MaxFrames - 1)

---------------------------------------------------------------------------
(* Characters, digits, and the string functions the source uses *)

Digits == <<"0", "1", "2", "3", "4", "5", "6", "7", "8", "9">>

\* regular expression class \d
IsDigit(c) == \E i \in 1..10 : Digits[i] = c

DigitVal(c) == (CHOOSE i \in 1..10 : Digits[i] = c) - 1

\* int(s) for a string of decimal digits
RECURSIVE ParseInt(_)
ParseInt(s) ==
    IF s = <<>> THEN 0
    ELSE 10 * ParseInt(SubSeq(s, 1, Len(s) - 1)) + DigitVal(s[Len(s)])

\* str(n) for n >= 0
RECURSIVE IntToStr(_)
IntToStr(n) ==
    IF n < 10 THEN <<Digits[n + 1]>>
    ELSE IntToStr(n \div 10) \o <<Digits[(n % 10) + 1]>>

\* c * n, a character repeated
RECURSIVE Repeat(_, _)
Repeat(c, n) == IF n <= 0 THEN <<>> ELSE <<c>> \o Repeat(c, n - 1)

\* "%0<width>d" % n and "{:0<width>}".format(n): zero padded to at least width
ZeroPad(n, width) ==
    LET s == IntToStr(n) IN Repeat("0", width - Len(s)) \o s

\* length of the run of digits of s that starts at position i (the greedy \d+)
RECURSIVE DigitRun(_, _)
DigitRun(s, i) ==
    IF i > Len(s) \/ ~IsDigit(s[i]) THEN 0 ELSE 1 + DigitRun(s, i + 1)

\* s.startswith(prefix)
StartsWith(s, prefix) ==
    /\ Len(prefix) <= Len(s)
    /\ SubSeq(s, 1, Len(prefix)) = prefix

\* s.replace(old, new): every non-overlapping occurrence, left to right
RECURSIVE Replace(_, _, _)
Replace(s, old, new) ==
    IF s = <<>> THEN <<>>
    ELSE IF StartsWith(s, old)
         THEN new \o Replace(SubSeq(s, Len(old) + 1, Len(s)), old, new)
         ELSE <<Head(s)>> \o Replace(Tail(s), old, new)

\* min() and max() of a non-empty list of integers
Min(numbers) ==
    CHOOSE n \in {numbers[i] : i \in 1..Len(numbers)} :
        \A i \in 1..Len(numbers) : n <= numbers[i]

Max(numbers) ==
    CHOOSE n \in {numbers[i] : i \in 1..Len(numbers)} :
        \A i \in 1..Len(numbers) : n >= numbers[i]

---------------------------------------------------------------------------
(* The published paths and the files the model's disk may hold *)

SeqDir == <<"/", "s", "e", "q", "/">>
\* a directory whose name holds a dot-delimited number, as in "v.2.x"
VerDir == <<"/", "v", ".", "2", ".", "x", "/">>
ShotFile == <<"s", "h", "o", "t", ".">>
JpgExt == <<".", "j", "p", "g">>
FrameSpec04 == <<"%", "0", "4", "d">>

\* "/seq/shot.%04d.jpg"
SeqTemplate == SeqDir \o ShotFile \o FrameSpec04 \o JpgExt
\* "/v.2.x/shot.%04d.jpg"
VerTemplate == VerDir \o ShotFile \o FrameSpec04 \o JpgExt
\* "/seq/shot.jpg": no frame placeholder
StillPath == SeqDir \o <<"s", "h", "o", "t">> \o JpgExt
\* "/seq/shot.tmp.jpg": matches "/seq/shot.*.jpg" and holds no frame number
TmpFile == SeqDir \o ShotFile \o <<"t", "m", "p">> \o JpgExt

\* "/seq/shot.%d.jpg": a printf token that is not of the %0Nd form
PlainSpecPath == SeqDir \o ShotFile \o <<"%", "d">> \o JpgExt

Templates == {SeqTemplate, VerTemplate}

\* the file of frame n of a sequence: template % n
FrameFile(template, n) == Replace(template, FrameSpec04, ZeroPad(n, 4))

SeqFiles == {FrameFile(SeqTemplate, n) : n \in Frames}
VerFiles == {FrameFile(VerTemplate, n) : n \in Frames}

\* paths without a frame placeholder: a still, a non-padded token, one frame
PlainPaths == {StillPath, PlainSpecPath, FrameFile(SeqTemplate, FirstFrame)}

\* the paths a publish may carry
PublishPaths == Templates \cup PlainPaths

\* the file systems of the model: the frames of one published sequence, in
\* one of the two directories, with or without the stray file
Disks ==
    {{FrameFile(template, n) : n \in S} \cup T :
        template \in {SeqTemplate, VerTemplate},
        S \in SUBSET Frames,
        T \in SUBSET {TmpFile}}

---------------------------------------------------------------------------
(* tk-3dequalizer_actions.py: the sequence range resolver *)

\* errno.ENOENT
ENOENT == 2

NoError == [exc |-> "None", errno |-> 0, msg |-> "", filename |-> <<>>]

\* FileExistenceError that does not hand the path to OSError
FileExistenceErrorWithoutPath(path) ==
    [exc |-> "FileExistenceError", errno |-> ENOENT,
     msg |-> "Couldn't find file on disk for published file path",
     filename |-> <<>>]

\* FileExistenceError(path): OSError(errno.ENOENT, message, path)
FileExistenceError(path) ==
    [exc |-> "FileExistenceError", errno |-> ENOENT,
     msg |-> "Couldn't find file on disk for published file path",
     filename |-> path]

\* ValueError(msg), IndexError(msg)
PyError(exc, msg) == [exc |-> exc, errno |-> 0, msg |-> msg, filename |-> <<>>]

\* frames_diff: key of a (current, next) pair of frame numbers
frames_diff(frames) == frames[2] - frames[1]

\* re.compile(r"(%0(\d+)d)") matching at position i of path: the number of
\* digits of group 2, or 0 when the pattern does not match there
FrameSpecAt(path, i) ==
    IF /\ i + 3 <= Len(path)
       /\ path[i] = "%"
       /\ path[i + 1] = "0"
       /\ DigitRun(path, i + 2) >= 1
       /\ i + 2 + DigitRun(path, i + 2) <= Len(path)
       /\ path[i + 2 + DigitRun(path, i + 2)] = "d"
    THEN DigitRun(path, i + 2)
    ELSE 0

\* the leftmost position from i on where the placeholder pattern matches
RECURSIVE FrameSpecFrom(_, _)
FrameSpecFrom(path, i) ==
    IF i > Len(path) THEN 0
    ELSE IF FrameSpecAt(path, i) > 0 THEN i
    ELSE FrameSpecFrom(path, i + 1)

\* frame_pattern.search(path): the leftmost match position, 0 for None
FrameSpecSearch(path) == FrameSpecFrom(path, 1)

\* re.compile(r"\.(\d+)\.") matching at position i of path: the number of
\* digits of group 1, or 0 when the pattern does not match there
FrameNumberAt(path, i) ==
    IF /\ i + 2 <= Len(path)
       /\ path[i] = "."
       /\ DigitRun(path, i + 1) >= 1
       /\ i + 1 + DigitRun(path, i + 1) <= Len(path)
       /\ path[i + 1 + DigitRun(path, i + 1)] = "."
    THEN DigitRun(path, i + 1)
    ELSE 0

\* the leftmost position from i on where the frame number pattern matches
RECURSIVE FrameNumberFrom(_, _)
FrameNumberFrom(path, i) ==
    IF i > Len(path) THEN 0
    ELSE IF FrameNumberAt(path, i) > 0 THEN i
    ELSE FrameNumberFrom(path, i + 1)

\* frame_pattern.search(path) of get_frame_numbers: leftmost match, 0 for None
FrameNumberSearch(path) == FrameNumberFrom(path, 1)

\* int(match.group(1)) for a match at position i
MatchedNumber(path, i) ==
    ParseInt(SubSeq(path, i + 1, i + FrameNumberAt(path, i)))

\* sorted(): n put in its place in an ascending list
RECURSIVE Insert(_, _)
Insert(sorted, n) ==
    IF sorted = <<>> THEN <<n>>
    ELSE IF n <= Head(sorted) THEN <<n>> \o sorted
    ELSE <<Head(sorted)>> \o Insert(Tail(sorted), n)

\* get_frame_numbers(paths): the numbers of the paths the pattern matches,
\* one entry per path, in ascending order. glob returns the paths in no
\* particular order and sorted() makes the result independent of it.
RECURSIVE get_frame_numbers(_)
get_frame_numbers(paths) ==
    IF paths = {} THEN <<>>
    ELSE LET path == CHOOSE p \in paths : TRUE
             match == FrameNumberSearch(path)
             rest == get_frame_numbers(paths \ {path})
         IN IF match > 0 THEN Insert(rest, MatchedNumber(path, match)) ELSE rest

\* fnmatch of glob.glob: "*" matches any run of characters inside one path
\* component, every other character of the templates matches itself (the
\* paths of the model hold none of "?", "[" and no name that starts with ".")
RECURSIVE GlobMatch(_, _)
GlobMatch(pattern, name) ==
    IF pattern = <<>> THEN name = <<>>
    ELSE IF Head(pattern) = "*"
         THEN \/ GlobMatch(Tail(pattern), name)
              \/ /\ name # <<>>
                 /\ Head(name) # "/"
                 /\ GlobMatch(pattern, Tail(name))
         ELSE /\ name # <<>>
              /\ Head(name) = Head(pattern)
              /\ GlobMatch(Tail(pattern), Tail(name))

\* glob.glob(glob_path) on the file system fs
Glob(fs, glob_path) == {f \in fs : GlobMatch(glob_path, f)}

\* izip(numbers[:-1], numbers[1:])
Pairs(numbers) ==
    [i \in 1..(Len(numbers) - 1) |-> <<numbers[i], numbers[i + 1]>>]

\* the keys of groupby(pairs, frames_diff): one per maximal run of equal keys
RECURSIVE GroupKeys(_)
GroupKeys(pairs) ==
    IF pairs = <<>> THEN <<>>
    ELSE IF Len(pairs) >= 2 /\ frames_diff(pairs[1]) = frames_diff(pairs[2])
         THEN GroupKeys(Tail(pairs))
         ELSE <<frames_diff(pairs[1])>> \o GroupKeys(Tail(pairs))

Returned(path, start, end, step, globbed) ==
    [kind |-> "return", path |-> path, start |-> start, end |-> end,
     step |-> step, error |-> NoError, globbed |-> globbed]

Raised(error, globbed) ==
    [kind |-> "raise", path |-> <<>>, start |-> 0, end |-> 0, step |-> 0,
     error |-> error, globbed |-> globbed]

NoResult ==
    [kind |-> "none", path |-> <<>>, start |-> 0, end |-> 0, step |-> 0,
     error |-> NoError, globbed |-> FALSE]

\* the statement that ends the frame_match branch, lines 95-96: the tuple is
\* evaluated left to right, so min() of no numbers raises before steps[0] does
RangeOf(path, frame_spec, width, numbers, steps) ==
    IF numbers = <<>>
    THEN Raised(PyError("ValueError", "min() arg is an empty sequence"), TRUE)
    ELSE IF steps = <<>>
    THEN Raised(PyError("IndexError", "list index out of range"), TRUE)
    ELSE Returned(Replace(path, frame_spec, Repeat("#", width)),
                  Min(numbers), Max(numbers), steps[1], TRUE)

\* the range initialised to 0, 0, 0
NoFrameSpecZero(path) == Returned(path, 0, 0, 0, FALSE)

\* start, end, step = 1, 1, 1 and the return of a path with no frame_match
NoFrameSpec(path) == Returned(path, 1, 1, 1, FALSE)

\* get_hash_path_and_range_info_from_seq(path) on the file system fs
get_hash_path_and_range_info_from_seq(fs, path) ==
    LET at == FrameSpecSearch(path)
    IN IF at = 0
       THEN NoFrameSpec(path)
       ELSE LET digits == FrameSpecAt(path, at)
                frame_spec == SubSeq(path, at, at + 2 + digits)
                width == ParseInt(SubSeq(path, at + 2, at + 1 + digits))
                glob_path == Replace(path, frame_spec, <<"*">>)
                frame_files == Glob(fs, glob_path)
                numbers == get_frame_numbers(frame_files)
                steps == GroupKeys(Pairs(numbers))
            IN IF frame_files = {}
               THEN Raised(FileExistenceError(path), TRUE)
               ELSE IF Len(steps) > 1
               THEN Raised(PyError("ValueError", "Inconsistent frame steps"), TRUE)
               ELSE RangeOf(path, frame_spec, width, numbers, steps)

---------------------------------------------------------------------------
(* The resolver called on a file system: one call per step *)

\* the loader and scene variables before anything ran
LoaderIdle ==
    /\ batch = <<>>
    /\ pc = "idle"
    /\ attempted = <<>>
    /\ raised = NoError
    /\ dialogs = <<>>
    /\ renames = <<>>

SceneIdle ==
    /\ saved = <<>>
    /\ lastOp = <<"none", <<>>>>
    /\ opRet = <<>>

\* a call of get_hash_path_and_range_info_from_seq(path)
Resolve(path) ==
    /\ req' = path
    /\ ret' = get_hash_path_and_range_info_from_seq(disk, path)
    /\ UNCHANGED <<disk, loaderVars, sceneVars>>

InitResolver ==
    /\ disk \in Disks
    /\ req = <<>>
    /\ ret = NoResult
    /\ cams = <<>>
    /\ cams0 = <<>>
    /\ camsPrev = <<>>
    /\ LoaderIdle
    /\ projectPath = <<>>
    /\ SceneIdle

NextResolver == \E path \in PublishPaths : Resolve(path)

SpecResolver == InitResolver /\ [][NextResolver]_vars

---------------------------------------------------------------------------
(* tk-3dequalizer_actions.py: the loader actions on the cameras of the scene.*)
(* The tde4 calls are modelled on cams, a sequence of camera records whose   *)
(* index is the cam_id.                                                      *)

\* app.engine.context.entity["name"]: "shot010"
ShotName == <<"s", "h", "o", "t", "0", "1", "0">>

\* a camera name that does not refer to the shot: "cam"
OtherName == <<"c", "a", "m">>

\* tde4.getNoCameras()
getNoCameras(cs) == Len(cs)

\* tde4.getCameraList(True): the ids of the selected cameras, in scene order
RECURSIVE SelectedFrom(_, _)
SelectedFrom(cs, id) ==
    IF id > Len(cs) THEN <<>>
    ELSE IF cs[id].selected
         THEN <<id>> \o SelectedFrom(cs, id + 1)
         ELSE SelectedFrom(cs, id + 1)

getCameraList(cs) == SelectedFrom(cs, 1)

\* is_sequence_camera that accepts every camera type
is_sequence_cameraAnyType(cs, cam_id) == cs[cam_id].type \in {"SEQUENCE", "REF_FRAME"}

\* is_sequence_camera(cam_id)
is_sequence_camera(cs, cam_id) == cs[cam_id].type = "SEQUENCE"

\* filter(is_sequence_camera, ids)
RECURSIVE FilterSequence(_, _)
FilterSequence(cs, ids) ==
    IF ids = <<>> THEN <<>>
    ELSE IF is_sequence_camera(cs, Head(ids))
         THEN <<Head(ids)>> \o FilterSequence(cs, Tail(ids))
         ELSE FilterSequence(cs, Tail(ids))

\* tde4.findCameraByName(name) as a truth value: a camera has that name
findCameraByName(cs, name) == \E id \in 1..Len(cs) : cs[id].name = name

\* "{}__{}".format(name, count): the count not zero padded
FormatCamNameUnpadded(name, count) == name \o <<"_", "_">> \o IntToStr(count)

\* "{}__{:02}".format(name, count)
FormatCamName(name, count) == name \o <<"_", "_">> \o ZeroPad(count, 2)

\* the while loop of lines 238-242, entered with the candidate cam_name of
\* the given count: the count it ends with
RECURSIVE FreeCount(_, _, _, _)
FreeCount(cs, name, cam_name, count) ==
    IF findCameraByName(cs, cam_name)
    THEN FreeCount(cs, name, FormatCamName(name, count + 1), count + 1)
    ELSE count

\* the cam_name the while loop ends with
FreeName(cs, name) ==
    LET count == FreeCount(cs, name, name, 0)
    IN IF count = 0 THEN name ELSE FormatCamName(name, count)

\* tde4.setCameraSequenceAttr, setCameraFrameOffset,
\* setCameraFrameRangeCalculationFlag and setCameraPath of lines 245-252
SetSequence(cam, path, start, end, step) ==
    [cam EXCEPT !.seqAttr = <<start, end, step>>,
                !.frameOffset = start,
                !.calcFlag = 1,
                !.path = path]

\* the body of the loop over the selected sequence cameras, lines 232-252,
\* from the cameras cs on; log collects the renames
RECURSIVE AssignCameras(_, _, _, _, _)
AssignCameras(cs, ids, name, r, log) ==
    IF ids = <<>> THEN [cams |-> cs, renames |-> log]
    ELSE LET cam_id == Head(ids)
             current_name == cs[cam_id].name
             rename == ~StartsWith(current_name, name)
             cam_name == IF rename THEN FreeName(cs, name) ELSE current_name
             entry == [cam |-> cam_id,
                       taken |-> {cs[id].name : id \in 1..Len(cs)},
                       count |-> FreeCount(cs, name, name, 0),
                       new |-> cam_name]
             cam == SetSequence([cs[cam_id] EXCEPT !.name = cam_name],
                                r.path, r.start, r.end, r.step)
         IN AssignCameras([cs EXCEPT ![cam_id] = cam], Tail(ids), name, r,
                          IF rename THEN Append(log, entry) ELSE log)

\* what one action does: the exception it raises, the cameras it leaves, the
\* warning dialogs it shows and the renames it makes
Outcome(error, cs, shown, log) ==
    [error |-> error, cams |-> cs, dialogs |-> shown, renames |-> log]

\* _import_image_seq(path, sg_publish_data)
import_image_seq(fs, cs, path) ==
    LET r == get_hash_path_and_range_info_from_seq(fs, path)
        selected_cameras == FilterSequence(cs, getCameraList(cs))
    IN IF r.kind = "raise" THEN Outcome(r.error, cs, <<>>, <<>>)
       ELSE IF getNoCameras(cs) = 0
       THEN Outcome(NoError, cs, <<"No cameras exist">>, <<>>)
       ELSE IF selected_cameras = <<>>
       THEN Outcome(NoError, cs, <<"No sequence cameras selected">>, <<>>)
       ELSE LET done == AssignCameras(cs, selected_cameras, ShotName, r, <<>>)
            IN Outcome(NoError, done.cams, <<>>, done.renames)

\* execute_action(name, params, sg_publish_data); path is the publish path,
\* get_publish_path(sg_publish_data).decode("utf-8"), which leaves the ASCII
\* paths of the model as they are
execute_action(fs, cs, name, path) ==
    IF name = "import_image_seq"
    THEN import_image_seq(fs, cs, path)
    ELSE Outcome(NoError, cs, <<>>, <<>>)

\* the for loop going on after an action raised
AfterActionSwallowed(error, i, n) == IF i = n THEN "done" ELSE "running"

\* where execute_multiple_actions stands after action i of n ended with
\* error: an exception leaves the for loop and reaches the caller
AfterAction(error, i, n) ==
    IF error # NoError THEN "raised"
    ELSE IF i = n THEN "done" ELSE "running"

\* the actions generate_actions offers, and one the hook does not know
ActionNames == {"import_image_seq", "reference"}

Actions == [name : ActionNames, path : {SeqTemplate, VerTemplate}]

Batches == UNION {[1..n -> Actions] : n \in 0..MaxBatch}

\* a camera as 3DE creates it
NewCamera(name, type, selected) ==
    [name |-> name, type |-> type, selected |-> selected,
     seqAttr |-> <<0, 0, 0>>, frameOffset |-> 0, calcFlag |-> 0, path |-> <<>>]

\* the names cameras have before an import: "shot010", "shot010__01", "cam"
InitNames == {ShotName, ShotName \o <<"_", "_", "0", "1">>, OtherName}

\* type and selection of the cameras of the scenes: a selected and an
\* unselected sequence camera, a selected reference camera
CameraKinds == {<<"SEQUENCE", TRUE>>, <<"SEQUENCE", FALSE>>, <<"REF_FRAME", TRUE>>}

InitCameras == {NewCamera(n, k[1], k[2]) : n \in InitNames, k \in CameraKinds}

Scenes == UNION {[1..n -> InitCameras] : n \in 0..MaxCams}

\* execute_multiple_actions(actions) is entered
StartBatch(actions) ==
    /\ pc # "running"
    /\ batch' = actions
    /\ pc' = IF actions = <<>> THEN "done" ELSE "running"
    /\ attempted' = <<>>
    /\ raised' = NoError
    /\ dialogs' = <<>>
    /\ renames' = <<>>
    /\ cams0' = cams
    /\ camsPrev' = cams
    /\ UNCHANGED <<disk, cams, resolverVars, sceneVars>>

\* one turn of the for loop of execute_multiple_actions: execute_action on
\* the next action of the list
ExecuteNext ==
    /\ pc = "running"
    /\ LET i == Len(attempted) + 1
           out == execute_action(disk, cams, batch[i].name, batch[i].path)
       IN /\ attempted' = Append(attempted, i)
          /\ camsPrev' = cams
          /\ cams' = out.cams
          /\ dialogs' = dialogs \o [k \in 1..Len(out.dialogs) |-> <<i, out.dialogs[k]>>]
          /\ renames' = out.renames
          /\ raised' = out.error
          /\ pc' = AfterAction(out.error, i, Len(batch))
    /\ UNCHANGED <<disk, batch, cams0, resolverVars, sceneVars>>

\* the file system of the loader runs: a published sequence of two frames
LoaderDisk ==
    {FrameFile(SeqTemplate, FirstFrame), FrameFile(SeqTemplate, FirstFrame + 1)}

\* the scenes of the batch runs: selected sequence cameras not yet named
\* after the shot
BatchScenes ==
    UNION {[1..n -> {NewCamera(OtherName, "SEQUENCE", TRUE)}] : n \in 0..MaxCams}

InitLoader ==
    /\ disk = LoaderDisk
    /\ req = <<>>
    /\ ret = NoResult
    /\ cams \in BatchScenes
    /\ cams0 = cams
    /\ camsPrev = cams
    /\ LoaderIdle
    /\ projectPath = <<>>
    /\ SceneIdle

NextLoader ==
    \/ \E actions \in Batches : StartBatch(actions)
    \/ ExecuteNext

SpecLoader == InitLoader /\ [][NextLoader]_vars

\* single actions run on every scene
InitImport ==
    /\ disk = LoaderDisk
    /\ req = <<>>
    /\ ret = NoResult
    /\ cams \in Scenes
    /\ cams0 = cams
    /\ camsPrev = cams
    /\ LoaderIdle
    /\ projectPath = <<>>
    /\ SceneIdle

NextImport ==
    \/ \E action \in Actions : StartBatch(<<action>>)
    \/ ExecuteNext

SpecImport == InitImport /\ [][NextImport]_vars

---------------------------------------------------------------------------
(* scene_operation_tk-3dequalizer.py: the scene operations on the project    *)

\* Python's None, as a value no path equals
PyNone == <<"None">>

\* "/a.3de" and "/b.3de"
ProjectA == <<"/", "a", ".", "3", "d", "e">>
ProjectB == <<"/", "b", ".", "3", "d", "e">>
ProjectFiles == {ProjectA, ProjectB}

\* the operations tk-multi-snapshot asks for, and two the hook does not handle
Operations == {"current_path", "open", "save", "save_as", "reset"}

\* execute whose "save" writes to the supplied file_path
executeSaveToFilePath(project, operation, file_path) ==
    IF operation = "current_path"
    THEN [projectPath |-> project, saves |-> <<>>, ret |-> project]
    ELSE IF operation = "open"
    THEN [projectPath |-> file_path, saves |-> <<>>, ret |-> PyNone]
    ELSE IF operation = "save"
    THEN [projectPath |-> project, saves |-> <<file_path>>, ret |-> PyNone]
    ELSE [projectPath |-> project, saves |-> <<>>, ret |-> PyNone]

\* SceneOperation.execute(operation, file_path) on a project whose path is
\* project: the project path it leaves (tde4.loadProject), the arguments of
\* the tde4.saveProject calls it makes, and what it returns
execute(project, operation, file_path) ==
    IF operation = "current_path"
    THEN [projectPath |-> project, saves |-> <<>>, ret |-> project]
    ELSE IF operation = "open"
    THEN [projectPath |-> file_path, saves |-> <<>>, ret |-> PyNone]
    ELSE IF operation = "save"
    THEN [projectPath |-> project, saves |-> <<project>>, ret |-> PyNone]
    ELSE [projectPath |-> project, saves |-> <<>>, ret |-> PyNone]

\* a call of SceneOperation.execute
Execute(operation, file_path) ==
    LET out == execute(projectPath, operation, file_path)
    IN /\ Len(saved) + Len(out.saves) <= MaxSaves
       /\ projectPath' = out.projectPath
       /\ saved' = saved \o out.saves
       /\ opRet' = out.ret
       /\ lastOp' = <<operation, file_path>>
       /\ UNCHANGED <<disk, resolverVars, loaderVars>>

InitScene ==
    /\ disk = {}
    /\ req = <<>>
    /\ ret = NoResult
    /\ cams = <<>>
    /\ cams0 = <<>>
    /\ camsPrev = <<>>
    /\ LoaderIdle
    /\ projectPath \in ProjectFiles \cup {PyNone}
    /\ saved = <<>>
    /\ lastOp = <<"none", PyNone>>
    /\ opRet = PyNone

NextScene ==
    \E operation \in Operations, file_path \in ProjectFiles :
        Execute(operation, file_path)

SpecScene == InitScene /\ [][NextScene]_vars

---------------------------------------------------------------------------
(* Properties of the resolver, stated on the files of the disk                *)

\* the request carries a %0Nd placeholder
HasFrameSpec(path) == path \in Templates

\* the frame numbers of the sequence files on disk that belong to the path
SequenceFrames(path) == {n \in Frames : FrameFile(path, n) \in disk}

\* the stray file matches the path's wildcard pattern
StrayMatch(path) == path = SeqTemplate /\ TmpFile \in disk

\* the path with its placeholder written as four '#'
HashPath(path) ==
    IF path = SeqTemplate
    THEN SeqDir \o ShotFile \o <<"#", "#", "#", "#">> \o JpgExt
    ELSE VerDir \o ShotFile \o <<"#", "#", "#", "#">> \o JpgExt

Smallest(S) == CHOOSE n \in S : \A m \in S : n <= m
Largest(S) == CHOOSE n \in S : \A m \in S : n >= m

\* S is start, start + d, start + 2d, ... without a gap
IsProgression(S, d) == \A n \in S : n = Smallest(S) \/ (n - d) \in S

\* the differences between neighbours of S in ascending order
ConsecutiveDiffs(S) ==
    {m - n : <<n, m>> \in
        {<<a, b>> \in S \X S : a < b /\ ~\E c \in S : a < c /\ c < b}}

\* the resolver was called on a placeholder path whose matching files are
\* sequence files with two or more frames in progression of difference d
ProgressionCase(d) ==
    /\ ret.kind # "none"
    /\ HasFrameSpec(req)
    /\ ~StrayMatch(req)
    /\ Cardinality(SequenceFrames(req)) >= 2
    /\ IsProgression(SequenceFrames(req), d)

\* C1: for every placeholder path whose matching files have frame numbers in
\* one arithmetic progression of difference d (two or more files), the
\* resolver returns the path with N '#', the smallest frame, the largest
\* frame and d.
C1_ProgressionResolved ==
    \A d \in 1..MaxFrames :
        ProgressionCase(d) =>
            ret = Returned(HashPath(req), Smallest(SequenceFrames(req)),
                           Largest(SequenceFrames(req)), d, TRUE)

\* C1 on the paths whose only dot-delimited number is the frame number
C1_InPlainDirectory ==
    \A d \in 1..MaxFrames :
        (ProgressionCase(d) /\ req = SeqTemplate) =>
            ret = Returned(HashPath(req), Smallest(SequenceFrames(req)),
                           Largest(SequenceFrames(req)), d, TRUE)

\* exactly one file matches the placeholder pattern, a sequence file
SingleFileCase ==
    /\ ret.kind # "none"
    /\ HasFrameSpec(req)
    /\ ~StrayMatch(req)
    /\ Cardinality(SequenceFrames(req)) = 1

\* C2: with exactly one matching file the resolver returns step 1 and
\* start = end = that file's frame number.
C2_SingleFileStepOne ==
    SingleFileCase =>
        /\ ret.kind = "return"
        /\ ret.step = 1
        /\ ret.start = Smallest(SequenceFrames(req))
        /\ ret.end = Smallest(SequenceFrames(req))

InconsistentSteps == Raised(PyError("ValueError", "Inconsistent frame steps"), TRUE)

\* C3: the resolver raises ValueError("Inconsistent frame steps") exactly when
\* the frame numbers of the matched files have more than one distinct
\* consecutive difference; it returns no step for such a sequence.
C3_InconsistentExactly ==
    (ret.kind # "none" /\ HasFrameSpec(req)) =>
        (ret = InconsistentSteps
            <=> Cardinality(ConsecutiveDiffs(SequenceFrames(req))) > 1)

\* C3 on the paths whose only dot-delimited number is the frame number
C3_InPlainDirectory ==
    (ret.kind # "none" /\ req = SeqTemplate) =>
        (ret = InconsistentSteps
            <=> Cardinality(ConsecutiveDiffs(SequenceFrames(req))) > 1)

\* the resolver was called on a placeholder path that matches no file
NoMatchCase ==
    /\ ret.kind # "none"
    /\ HasFrameSpec(req)
    /\ SequenceFrames(req) = {}
    /\ ~StrayMatch(req)

\* C4: a placeholder path that matches zero files fails with
\* FileExistenceError (errno ENOENT) carrying the unmodified template path.
C4_NoFilesFileExistenceError ==
    NoMatchCase =>
        /\ ret.kind = "raise"
        /\ ret.error.exc = "FileExistenceError"
        /\ ret.error.errno = 2
        /\ ret.error.filename = req

C4_Witness == NoMatchCase /\ disk # {} /\ req = VerTemplate

\* C5: a path without a %0Nd placeholder is returned unchanged with
\* start = end = step = 1, the file system is not consulted, nothing is raised.
C5_NoPlaceholderTrivial ==
    (ret.kind # "none" /\ req \in PlainPaths) =>
        /\ ret.kind = "return"
        /\ ret.path = req
        /\ ret.start = 1 /\ ret.end = 1 /\ ret.step = 1
        /\ ~ret.globbed

C5_Witness ==
    /\ ret.kind = "return"
    /\ req = PlainSpecPath
    /\ FrameFile(SeqTemplate, FirstFrame) \in disk

\* C10: the frame numbers the resolver works with are the numbers standing
\* where the placeholder was, whatever the directory holds: the returned
\* start and end are the smallest and largest frame of the files on disk.
C10_FramesOfTheFiles ==
    (ret.kind = "return" /\ HasFrameSpec(req)) =>
        /\ ret.start = Smallest(SequenceFrames(req))
        /\ ret.end = Largest(SequenceFrames(req))

\* C10 on the paths whose only dot-delimited number is the frame number
C10_InPlainDirectory ==
    (ret.kind = "return" /\ req = SeqTemplate) =>
        /\ ret.start = Smallest(SequenceFrames(req))
        /\ ret.end = Largest(SequenceFrames(req))

---------------------------------------------------------------------------
(* Properties of the loader actions                                          *)

\* the action raises: only import_image_seq does, when its path does not resolve
Raises(action) ==
    /\ action.name = "import_image_seq"
    /\ get_hash_path_and_range_info_from_seq(disk, action.path).kind = "raise"

ErrorOf(action) == get_hash_path_and_range_info_from_seq(disk, action.path).error

\* the cameras after the actions were applied one after the other
RECURSIVE ApplyActions(_, _)
ApplyActions(cs, actions) ==
    IF actions = <<>> THEN cs
    ELSE ApplyActions(
             execute_action(disk, cs, Head(actions).name, Head(actions).path).cams,
             Tail(actions))

\* C6: execute_multiple_actions applies the actions in list order and stops at
\* the first that raises: the effects of the actions before it are applied,
\* its error reaches the caller, and no later action is attempted.
C6_StopsAtFirstRaise ==
    LET n == Len(attempted)
    IN /\ n <= Len(batch)
       /\ attempted = [i \in 1..n |-> i]
       /\ \A i \in 1..(n - 1) : ~Raises(batch[i])
       /\ pc = "raised" =>
            /\ n >= 1
            /\ Raises(batch[n])
            /\ raised = ErrorOf(batch[n])
            /\ cams = ApplyActions(cams0, SubSeq(batch, 1, n - 1))
       /\ pc = "done" =>
            /\ n = Len(batch)
            /\ \A i \in 1..n : ~Raises(batch[i])
            /\ raised = NoError
            /\ cams = ApplyActions(cams0, batch)
       /\ pc = "running" =>
            /\ n < Len(batch)
            /\ \A i \in 1..n : ~Raises(batch[i])
            /\ cams = ApplyActions(cams0, SubSeq(batch, 1, n))

\* three actions, the second raised after the first changed the cameras
C6_Witness ==
    /\ pc = "raised"
    /\ Len(batch) = 3
    /\ attempted = <<1, 2>>
    /\ cams # cams0
    /\ raised.exc = "FileExistenceError"

\* two decimal digits of k < 100
TwoDigits(k) == <<Digits[(k \div 10) + 1], Digits[(k % 10) + 1]>>

\* the shot name, or the shot name with the smallest free suffix __NN
ExpectedName(taken) ==
    IF ShotName \notin taken THEN ShotName
    ELSE LET free == {k \in 1..(MaxCams + 1) :
                         (ShotName \o <<"_", "_">> \o TwoDigits(k)) \notin taken}
             k == CHOOSE k \in free : \A j \in free : k <= j
         IN ShotName \o <<"_", "_">> \o TwoDigits(k)

UniqueNames(cs) ==
    \A i, j \in 1..Len(cs) : cs[i].name = cs[j].name => i = j

\* C7: a renamed camera gets the shot name if no camera has it, otherwise
\* shot__NN for the smallest NN >= 1 no camera has; the search ends within as
\* many steps as there are cameras; names that were unique stay unique.
C7_FreeCameraName ==
    /\ \A k \in 1..Len(renames) :
          /\ renames[k].new = ExpectedName(renames[k].taken)
          /\ renames[k].new \notin renames[k].taken
          /\ renames[k].count <= Cardinality(renames[k].taken)
          /\ cams[renames[k].cam].name = renames[k].new
    /\ UniqueNames(camsPrev) => UniqueNames(cams)

\* "shot010" and "shot010__01" were taken, the camera became "shot010__02"
C7_Witness ==
    \E k \in 1..Len(renames) :
        /\ renames[k].new = ShotName \o <<"_", "_", "0", "2">>
        /\ ShotName \in renames[k].taken
        /\ UniqueNames(camsPrev)

\* the last action was import_image_seq
ImportRan ==
    /\ attempted # <<>>
    /\ batch[Len(attempted)].name = "import_image_seq"

\* no camera exists, or no selected camera is a sequence camera
NoTarget(cs) ==
    ~\E id \in 1..Len(cs) : cs[id].selected /\ cs[id].type = "SEQUENCE"

\* the titles of the warning dialogs the last action showed
ShownByLast == {dialogs[k][2] : k \in {j \in 1..Len(dialogs) : dialogs[j][1] = Len(attempted)}}

\* C8 as stated: import_image_seq with no target camera always ends in a
\* warning dialog, never in an exception, and modifies no camera.
C8_AlwaysWarning ==
    (ImportRan /\ NoTarget(camsPrev)) =>
        /\ raised = NoError
        /\ ShownByLast # {}
        /\ cams = camsPrev

\* C8: import_image_seq with no target camera modifies no camera; when the
\* path resolves it shows the warning dialog and raises nothing, when the
\* path does not resolve the resolver's error is raised and no dialog shown.
C8_WarningAfterResolve ==
    (ImportRan /\ NoTarget(camsPrev)) =>
        /\ cams = camsPrev
        /\ IF Raises(batch[Len(attempted)])
           THEN /\ raised = ErrorOf(batch[Len(attempted)])
                /\ ShownByLast = {}
           ELSE /\ raised = NoError
                /\ ShownByLast = IF Len(camsPrev) = 0
                                 THEN {"No cameras exist"}
                                 ELSE {"No sequence cameras selected"}

\* a selected reference camera only: the warning was shown
C8_Witness ==
    /\ ImportRan
    /\ NoTarget(camsPrev)
    /\ \E id \in 1..Len(camsPrev) : camsPrev[id].selected
    /\ ShownByLast = {"No sequence cameras selected"}

---------------------------------------------------------------------------
(* Properties of the scene operations                                        *)

\* C9: "save" writes the project to the path "current_path" would return at
\* that moment, whatever file_path is, and leaves the project path as it is;
\* only "open" changes the project path, to its file_path; "current_path"
\* returns the project path and every other operation returns None.
C9_SceneOperations ==
    [][/\ lastOp'[1] = "save" =>
            /\ saved' = Append(saved, projectPath)
            /\ projectPath' = projectPath
       /\ lastOp'[1] # "save" => saved' = saved
       /\ lastOp'[1] = "open" => projectPath' = lastOp'[2]
       /\ lastOp'[1] # "open" => projectPath' = projectPath
       /\ lastOp'[1] = "current_path" => opRet' = projectPath
       /\ lastOp'[1] # "current_path" => opRet' = PyNone]_vars

\* a save called with another file_path than the project's, after an open
C9_Witness ==
    /\ lastOp = <<"save", ProjectB>>
    /\ projectPath = ProjectA
    /\ saved = <<ProjectB, ProjectA>>

=============================================================================
